---- MODULE Spec2Model ----
(***************************************************************************)
(* Model of translate.py: the Corpus Driver (make_translation), the        *)
(* Dialogue Translation Engine (translate_dialogue) with its retry loop,   *)
(* the Response Parser (json_parse) and the Model Gateway as environment.  *)
(***************************************************************************)
EXTENDS Integers, Sequences, FiniteSets, TLC

(***************************************************************************)
(* JSON values as json.loads produces them.  One record shape for all of   *)
(* them: t is the Python type, s the text of a str, v the items of a list  *)
(* (or the keys of a dict, which is all len() and iteration see of it).    *)
(* "num" stands for every value without len(): int, float, bool, None.     *)
(***************************************************************************)
JStr(s) == [s |-> s, t |-> "str", v |-> <<>>]
JNum == [s |-> "", t |-> "num", v |-> <<>>]
JList(v) == [s |-> "", t |-> "list", v |-> v]
JObj(keys) == [s |-> "", t |-> "obj", v |-> keys]
NoValue == [s |-> "", t |-> "none", v |-> <<>>]

\* len(x) raises TypeError when x has no len()
HasLen(x) == x.t \in {"str", "list", "obj"}
PyLen(x) == IF x.t = "str" THEN Len(x.s) ELSE Len(x.v)
\* for s in x: the items of a list, the keys of a dict, the characters of a str
\* (each character is a str of length 1; which character it is plays no part)
Items(x) == IF x.t = "str" THEN [i \in 1..Len(x.s) |-> JStr("c")] ELSE x.v

Max(a, b) == IF a > b THEN a ELSE b
Min(a, b) == IF a < b THEN a ELSE b

(***************************************************************************)
(* Text of a Model Gateway reply: a sequence of characters.  A serialised  *)
(* JSON value takes at least two characters; it is kept as an opening and  *)
(* a closing half so that a slice that cuts into it leaves invalid JSON.   *)
(***************************************************************************)
Ch(c) == [x |-> NoValue, c |-> c]
Half(c, x) == [x |-> x, c |-> c]
Serialize(x) == <<Half("open", x), Half("close", x)>>
FenceOpen == <<Ch("tick"), Ch("tick"), Ch("tick"), Ch("j"), Ch("s"), Ch("o"), Ch("n")>>
FenceClose == <<Ch("tick"), Ch("tick"), Ch("tick")>>
Newline == <<Ch("nl")>>
CleanText(x) == Serialize(x)
FencedText(x) == FenceOpen \o Newline \o Serialize(x) \o Newline \o FenceClose
GarbageText == <<Ch("s"), Ch("o")>>
\* other texts a gateway sends: whitespace around the JSON, a fence without
\* line breaks, a fence followed by a line break, a fence inside a fence, a
\* fence that is never closed
PaddedText(x) == Newline \o Serialize(x) \o Newline
TightFencedText(x) == FenceOpen \o Serialize(x) \o FenceClose
TrailingFencedText(x) == FencedText(x) \o Newline
DoubleFencedText(x) == FenceOpen \o Newline \o FencedText(x) \o Newline \o FenceClose
OpenFencedText(x) == FenceOpen \o Newline \o Serialize(x)

StartsWith(s, p) == Len(s) >= Len(p) /\ SubSeq(s, 1, Len(p)) = p
\* s[a:-b] for a, b > 0
SliceFromTo(s, a, b) == SubSeq(s, a + 1, Len(s) - b)

RECURSIVE LStrip(_)
LStrip(s) == IF s # <<>> /\ Head(s) = Ch("nl") THEN LStrip(Tail(s)) ELSE s
RECURSIVE RStrip(_)
RStrip(s) ==
    IF s # <<>> /\ s[Len(s)] = Ch("nl") THEN RStrip(SubSeq(s, 1, Len(s) - 1)) ELSE s

\* json.loads: one value, surrounding whitespace allowed; anything else raises
JsonLoadsOk(s) ==
    LET b == RStrip(LStrip(s))
    IN  /\ Len(b) = 2
        /\ b[1].c = "open"
        /\ b[2].c = "close"
        /\ b[1].x = b[2].x
JsonLoads(s) == RStrip(LStrip(s))[1].x

FencePrefixLen == 8
FenceSuffixLen == 3

\* json_parse: the text json.loads is given
JsonParseBody(s) ==
    IF StartsWith(s, FenceOpen) THEN SliceFromTo(s, FencePrefixLen, FenceSuffixLen) ELSE s
JsonParseOk(s) == JsonLoadsOk(JsonParseBody(s))
JsonParse(s) == JsonLoads(JsonParseBody(s))


(***************************************************************************)
(* The Document: files -> dialogues (blocks) -> speeches -> lines; a line  *)
(* is a one-element list holding the text.                                 *)
(***************************************************************************)
Line(txt) == <<JStr(txt)>>
Speech(c, texts) == [character |-> c, text |-> [y \in DOMAIN texts |-> Line(texts[y])]]
File(n, blocks) == [name |-> n, dialogues |-> blocks]

\* lines of the longest speech, blocks of the longest file
MaxLines == 2
CorpusBlocks == 5

BlockHello == <<Speech("NP", <<"Hello.">>)>>
BlockTwo ==
    <<Speech("Quote", [y \in 1..MaxLines |-> IF y % 2 = 1 THEN "Hello." ELSE "Bye."]),
      Speech("NP", <<"Bye.">>)>>
BlockNone == <<>>
BlockBye == <<Speech("Curly", <<"Bye.">>)>>

DocHello == <<File("a", <<BlockHello>>)>>
DocTwo == <<File("a", <<BlockTwo>>)>>
DocNone == <<File("a", <<BlockNone>>)>>
DocPair == <<File("a", <<BlockHello, BlockBye>>)>>
DocCorpus ==
    <<File("a", [i \in 1..CorpusBlocks |->
                    IF i = 3 THEN BlockTwo ELSE IF i % 2 = 1 THEN BlockHello ELSE BlockBye]),
      File("b", <<BlockBye>>)>>

EngineDocs == {DocHello, DocTwo, DocNone}
DriverDocs == {DocCorpus}
CostDocs == {DocPair}

\* the (file, block) positions of a document in the order the driver visits them
RECURSIVE PositionsFrom(_, _)
PositionsFrom(d, f) ==
    IF f > Len(d) THEN <<>>
    ELSE [i \in 1..Len(d[f].dialogues) |-> <<f, i>>] \o PositionsFrom(d, f + 1)
Positions(d) == PositionsFrom(d, 1)
\* dialogue_count
DialogueCount(d) == Len(Positions(d))

\* format_dialogue: {character: [t[0] for t in text]} per speech
FormatDialogue(dl) ==
    [x \in DOMAIN dl |->
        [character |-> dl[x].character,
         lines |-> [y \in DOMAIN dl[x].text |-> dl[x].text[y][1]]]]

\* pattern = [len(list(s.values())[0]) for s in dialogue]
Pattern(dialogue) == [x \in DOMAIN dialogue |-> Len(dialogue[x].lines)]

MaxContext == 3

\* the 0-based indices seq[a:b] selects from a list of n elements (b >= 0)
SliceIndices(n, a, b) ==
    LET lo == IF a < 0 THEN Max(n + a, 0) ELSE Min(a, n)
        hi == Min(b, n)
    IN  [k \in 1..Max(hi - lo, 0) |-> lo + k - 1]

\* the 0-based indices of data["dialogues"][max(0, i-3): i], i 0-based
ContextIndicesInclusive(n, i) == SliceIndices(n, Max(0, i - MaxContext), i + 1)
ContextIndices(n, i) == SliceIndices(n, Max(0, i - MaxContext), i)

\* context = [format_dialogue(d) for d in data["dialogues"][max(0, i-3): i]]
GatherContext(d, f, i) ==
    LET ix == ContextIndices(Len(d[f].dialogues), i - 1)
    IN  [k \in DOMAIN ix |-> FormatDialogue(d[f].dialogues[ix[k] + 1])]

(***************************************************************************)
(* The shape check of translate_dialogue, in evaluation order.             *)
(***************************************************************************)
AllSized(parsed) == \A i \in DOMAIN Items(parsed) : HasLen(Items(parsed)[i])

ValidateNoInner(parsed, dialogue) ==
    IF ~HasLen(parsed) THEN "TypeError"
    ELSE IF PyLen(parsed) # Len(dialogue) THEN "mismatch"
    ELSE IF ~AllSized(parsed) THEN "TypeError"
    ELSE IF \E i \in DOMAIN Items(parsed) : Items(parsed)[i].t # "list" THEN "mismatch"
    ELSE "ok"

Validate(parsed, dialogue) ==
    IF ~HasLen(parsed) THEN "TypeError"
    ELSE IF PyLen(parsed) # Len(dialogue) THEN "mismatch"
    ELSE IF ~AllSized(parsed) THEN "TypeError"
    ELSE IF \E i \in DOMAIN Items(parsed) :
                PyLen(Items(parsed)[i]) # Len(dialogue[i].lines) THEN "mismatch"
    ELSE IF \E i \in DOMAIN Items(parsed) : Items(parsed)[i].t # "list" THEN "mismatch"
    ELSE "ok"

\* [len(s) for s in translation]; raises TypeError unless AllSized
ObservedSchema(translation) ==
    [i \in DOMAIN Items(translation) |-> PyLen(Items(translation)[i])]

(***************************************************************************)
(* Prompts, by the parts the text is built from.                           *)
(***************************************************************************)
NoSummary == [terms |-> "none", styles |-> FALSE]

OriginalPrompt(summary, previous_dialogues, dialogue) ==
    [dialogue |-> dialogue,
     kind |-> "original",
     glossary |-> summary,
     context |-> previous_dialogues,
     pattern |-> Pattern(dialogue),
     observed |-> <<>>,
     latin |-> NoValue]

CorrectivePrompt(dialogue, translation) ==
    [dialogue |-> dialogue,
     kind |-> "corrective",
     glossary |-> NoSummary,
     context |-> <<>>,
     pattern |-> Pattern(dialogue),
     observed |-> ObservedSchema(translation),
     latin |-> translation]


(***************************************************************************)
(* Write-back of a Translation Result into a block (make_translation):     *)
(*   for (x, s) in enumerate(trans): for (y, t) in enumerate(s):           *)
(*       dl[x]["text"][y][0] = t                                           *)
(***************************************************************************)
WriteBlockAppend(dl, trans) ==
    [x \in DOMAIN dl |->
        IF x \in DOMAIN Items(trans)
        THEN [dl[x] EXCEPT !.text =
                 @ \o [y \in DOMAIN Items(Items(trans)[x]) |-> <<Items(Items(trans)[x])[y]>>]]
        ELSE dl[x]]

WriteBlockFirst(dl, trans) ==
    [x \in DOMAIN dl |->
        IF x \in DOMAIN Items(trans)
        THEN [dl[x] EXCEPT !.text =
                 [y \in DOMAIN @ |->
                     IF y \in DOMAIN Items(Items(trans)[x])
                     THEN [@[y] EXCEPT ![1] = Items(Items(trans)[x])[1]]
                     ELSE @[y]]]
        ELSE dl[x]]

WriteBlock(dl, trans) ==
    [x \in DOMAIN dl |->
        IF x \in DOMAIN Items(trans)
        THEN [dl[x] EXCEPT !.text =
                 [y \in DOMAIN @ |->
                     IF y \in DOMAIN Items(Items(trans)[x])
                     THEN [@[y] EXCEPT ![1] = Items(Items(trans)[x])[y]]
                     ELSE @[y]]]
        ELSE dl[x]]

\* every dl[x]["text"][y] the loops index exists (no IndexError, no TypeError)
Fits(dl, trans) ==
    /\ HasLen(trans)
    /\ Len(Items(trans)) <= Len(dl)
    /\ \A x \in DOMAIN Items(trans) :
          /\ HasLen(Items(trans)[x])
          /\ Len(Items(Items(trans)[x])) <= Len(dl[x].text)

WriteBack(d, f, i, trans) ==
    [d EXCEPT ![f].dialogues[i] = WriteBlock(@, trans)]

(***************************************************************************)
(* What the Model Gateway may answer.                                      *)
(***************************************************************************)
MaxCost == 2
CallCosts == 1..MaxCost
UnitCosts == {1}

MaxOf(S) == CHOOSE m \in S : \A n \in S : n <= m
AllBlocks(docs) ==
    UNION {{d[f].dialogues[i] : i \in DOMAIN d[f].dialogues} : <<d, f>> \in
              UNION {{<<d, f>> : f \in DOMAIN d} : d \in docs}}
LongestBlock(docs) == MaxOf({Len(b) : b \in AllBlocks(docs)} \cup {0})
LongestSpeech(docs) ==
    MaxOf(UNION {{Len(b[x].text) : x \in DOMAIN b} : b \in AllBlocks(docs)} \cup {0})

SeqsUpTo(S, n) == UNION {[1..m -> S] : m \in 0..n}

\* payload of line y of speech x under a naming scheme
Payload(sc, x, y) ==
    CASE sc = "salve" -> JStr("Salve.")
      [] sc = "mixed" -> IF (x + y) % 2 = 0 THEN JStr("Hello.") ELSE JStr("Vale.")
      [] OTHER -> JNum
\* element kinds: k >= 0 a list of k lines, -1 a str, -2 a value without len()
ElemOf(k, x, sc) ==
    IF k = -2 THEN JNum
    ELSE IF k = -1 THEN JStr("ab")
    ELSE JList([y \in 1..k |-> Payload(sc, x, y)])
ValueOf(sh, sc) == JList([x \in DOMAIN sh |-> ElemOf(sh[x], x, sc)])
ShapesOf(docs) == {Pattern(FormatDialogue(b)) : b \in AllBlocks(docs)}

OddTops == {JObj(<<>>), JObj(<<JStr("k")>>), JStr(""), JStr("a"), JNum}

\* every nested list up to the size of the largest block, the replies of a
\* block's shape with other line values, and the odd values
EngineValues ==
    {ValueOf(sh, "salve") :
        sh \in SeqsUpTo({-2, -1} \cup 0..LongestSpeech(EngineDocs), LongestBlock(EngineDocs))}
    \cup {ValueOf(sh, sc) : sh \in ShapesOf(EngineDocs), sc \in {"mixed", "num"}}
    \cup OddTops

\* the values whose shape is the shape of some block, one of no block's shape,
\* and two without len()
LeanValues(docs) ==
    {ValueOf(sh, "salve") : sh \in ShapesOf(docs) \cup {<<LongestSpeech(docs) + 1>>}}
    \cup {JNum, ValueOf(<<-2, -2, -2>>, "salve")}

Texts(U) == {CleanText(x) : x \in U} \cup {FencedText(x) : x \in U} \cup {GarbageText}

\* a reply text as json_parse sees it: parsed, or raising
ParseReply(text) ==
    [parsed |-> IF JsonParseOk(text) THEN JsonParse(text) ELSE NoValue,
     ok |-> JsonParseOk(text)]
EngineReplies == {ParseReply(t) : t \in Texts(EngineValues)}
DriverReplies == {ParseReply(t) : t \in Texts(LeanValues(DriverDocs))}
CostReplies == {ParseReply(t) : t \in Texts(LeanValues(CostDocs))}

(***************************************************************************)
(* State.                                                                  *)
(***************************************************************************)
VARIABLES
    doc,          \* j: the in-memory Document, mutated in place
    orig,         \* the Document as loaded (never assigned after Init)
    pc,           \* driver position: summary, terms, loop, engine, write, done, exited
    idx,          \* idx: number of blocks started
    cost,         \* the driver's cumulative cost
    lastReport,   \* the last progress line printed: idx, dialogue_count, cost
    summary,      \* the Summary
    written,      \* how many times the output file was written
    out,          \* content of the output file
    exitStatus,   \* process exit status, -1 while running
    exitCause,    \* none, exhausted, interrupt, crash
    epc,          \* engine position: head (between attempts), call (inside try)
    attempts,     \* attempts
    prompt,       \* prompt
    ecost,        \* the engine's cost
    dialogue,     \* the formatted block being translated
    context,      \* previous_dialogues
    calls,        \* Model Gateway calls issued for the current block
    billed,       \* what the gateway charged for the current block
    costBefore,   \* the driver's cost when the current block started
    last,         \* how the last gateway call of the current block ended
    returned,     \* the values translate_dialogue returned, one per call of it
    conformSeen,  \* a conforming reply has arrived for the current block
    ctxSrc,       \* the (file, index) of each block gathered into context
    intr,         \* where a KeyboardInterrupt arrived, "none" if none did
    sumCalls,     \* calls of get_summary made
    termCalls,    \* calls of get_term_translations made
    ptext,        \* s: the text json_parse is called with
    ppc,          \* json_parse: idle, input (called), returned, raised
    pout,         \* the value json_parse returned
    pvalue,       \* the JSON value ptext was made from
    pform         \* how ptext was made from it: clean, fenced, ...

driverVars == <<doc, orig, idx, cost, lastReport, summary>>
outVars == <<written, out>>
engineVars == <<epc, attempts, prompt, ecost, dialogue, context>>
ghostVars == <<calls, billed, costBefore, last, returned, conformSeen, ctxSrc>>
setupVars == <<sumCalls, termCalls>>
progVars ==
    <<driverVars, outVars, pc, exitStatus, exitCause, engineVars, ghostVars, intr, setupVars>>
parserVars == <<ptext, ppc, pout, pvalue, pform>>
vars == <<progVars, parserVars>>

MaxAttempts == 10

NoReply ==
    [kind |-> "none", observed |-> <<>>, conforming |-> FALSE, sized |-> FALSE,
     sequences |-> FALSE]
NoPrompt == OriginalPrompt(NoSummary, <<>>, <<>>)

\* a sequence of sequences (JSON arrays) with the block's counts
SpecConforming(parsed, dl) ==
    /\ parsed.t = "list"
    /\ Len(parsed.v) = Len(dl)
    /\ \A x \in DOMAIN parsed.v :
          /\ parsed.v[x].t = "list"
          /\ Len(parsed.v[x].v) = Len(dl[x].lines)

\* a JSON array whose elements are JSON arrays
IsSeqOfSeqs(parsed) ==
    /\ parsed.t = "list"
    /\ \A x \in DOMAIN parsed.v : parsed.v[x].t = "list"

\* the current block's place in the Document
CurFile == Positions(orig)[idx][1]
CurBlock == Positions(orig)[idx][2]

InitProgram(docs) ==
    /\ orig \in docs
    /\ doc = orig
    /\ pc = "summary"
    /\ idx = 0
    /\ cost = 0
    /\ lastReport = [idx |-> -1, cost |-> 0, count |-> 0]
    /\ summary = NoSummary
    /\ written = 0
    /\ out = <<>>
    /\ exitStatus = -1
    /\ exitCause = "none"
    /\ epc = "head"
    /\ attempts = 0
    /\ prompt = NoPrompt
    /\ ecost = 0
    /\ dialogue = <<>>
    /\ context = <<>>
    /\ calls = 0
    /\ billed = 0
    /\ costBefore = 0
    /\ last = NoReply
    /\ returned = <<>>
    /\ conformSeen = FALSE
    /\ ctxSrc = <<>>
    /\ intr = "none"
    /\ sumCalls = 0
    /\ termCalls = 0

\* json_parse not called on its own
ParserIdle ==
    /\ ptext = <<>>
    /\ ppc = "idle"
    /\ pout = NoValue
    /\ pvalue = NoValue
    /\ pform = "none"

InitWith(docs) == InitProgram(docs) /\ ParserIdle

\* sys.exit / an uncaught exception: the process ends, the output is not touched
ExitFlushing(status, cause) ==
    /\ pc' = "exited"
    /\ exitStatus' = status
    /\ exitCause' = cause
    /\ written' = written + 1
    /\ out' = doc

Exit(status, cause) ==
    /\ pc' = "exited"
    /\ exitStatus' = status
    /\ exitCause' = cause
    /\ UNCHANGED outVars

(***************************************************************************)
(* Corpus Driver.                                                          *)
(***************************************************************************)
\* get_summary succeeds: one call, its cost added; complete tells whether the
\* parsed Summary has character_styles and style_guide
GetSummary(C) ==
    /\ pc = "summary"
    /\ \E c \in C, complete \in BOOLEAN :
          /\ summary' = [terms |-> "english", styles |-> complete]
          /\ cost' = cost + c
    /\ pc' = "terms"
    /\ UNCHANGED <<doc, orig, idx, lastReport, outVars, exitStatus, exitCause,
                   engineVars, ghostVars, intr>>
    /\ sumCalls' = sumCalls + 1
    /\ UNCHANGED termCalls
    /\ UNCHANGED parserVars

\* a failed get_summary that is called again
GetSummaryFailsRetried ==
    /\ pc = "summary"
    /\ sumCalls < 2
    /\ sumCalls' = sumCalls + 1
    /\ UNCHANGED <<driverVars, outVars, pc, exitStatus, exitCause, engineVars, ghostVars,
                   intr, termCalls, parserVars>>

\* get_summary raises (gateway failure, unparsable text, no "terms"): nothing catches it
GetSummaryFails ==
    /\ pc = "summary"
    /\ Exit(1, "crash")
    /\ UNCHANGED <<driverVars, engineVars, ghostVars, intr>>
    /\ sumCalls' = sumCalls + 1
    /\ UNCHANGED termCalls
    /\ UNCHANGED parserVars

\* get_term_translations succeeds; "Current cost" is printed
GetTermTranslations(C) ==
    /\ pc = "terms"
    /\ \E c \in C :
          /\ cost' = cost + c
          /\ lastReport' = [idx |-> 0, cost |-> cost + c, count |-> DialogueCount(doc)]
    /\ summary' = [summary EXCEPT !.terms = "latin"]
    /\ pc' = "loop"
    /\ UNCHANGED <<doc, orig, idx, outVars, exitStatus, exitCause,
                   engineVars, ghostVars, intr>>
    /\ termCalls' = termCalls + 1
    /\ UNCHANGED sumCalls
    /\ UNCHANGED parserVars

GetTermTranslationsFails ==
    /\ pc = "terms"
    /\ Exit(1, "crash")
    /\ UNCHANGED <<driverVars, engineVars, ghostVars, intr>>
    /\ termCalls' = termCalls + 1
    /\ UNCHANGED sumCalls
    /\ UNCHANGED parserVars

\* the loop body up to the first attempt: progress line, context, the prompt of
\* translate_dialogue (KeyError when the Summary lacks a key it reads)
BeginBlock ==
    /\ pc = "loop"
    /\ idx < DialogueCount(doc)
    /\ idx' = idx + 1
    /\ lastReport' = [idx |-> idx + 1, cost |-> cost, count |-> DialogueCount(doc)]
    /\ LET f == Positions(doc)[idx + 1][1]
           i == Positions(doc)[idx + 1][2]
           formatted == FormatDialogue(doc[f].dialogues[i])
           ctx == GatherContext(doc, f, i)
           ix == ContextIndices(Len(doc[f].dialogues), i - 1)
       IN  /\ dialogue' = formatted
           /\ context' = ctx
           /\ ctxSrc' = [k \in DOMAIN ix |-> <<f, ix[k]>>]
           /\ IF summary.styles
              THEN /\ prompt' = OriginalPrompt(summary, ctx, formatted)
                   /\ pc' = "engine"
                   /\ UNCHANGED <<outVars, exitStatus, exitCause>>
              ELSE /\ prompt' = prompt
                   /\ Exit(1, "crash")
    /\ ecost' = 0
    /\ attempts' = 0
    /\ epc' = "head"
    /\ calls' = 0
    /\ billed' = 0
    /\ costBefore' = cost
    /\ last' = NoReply
    /\ conformSeen' = FALSE
    /\ UNCHANGED <<doc, orig, cost, summary, returned, intr>>
    /\ UNCHANGED setupVars
    /\ UNCHANGED parserVars

\* after the last block: json.dump(j, out, indent=2)
WriteOutput ==
    /\ pc = "loop"
    /\ idx = DialogueCount(doc)
    /\ written' = written + 1
    /\ out' = doc
    /\ pc' = "done"
    /\ UNCHANGED <<driverVars, exitStatus, exitCause, engineVars, ghostVars, intr>>
    /\ UNCHANGED setupVars
    /\ UNCHANGED parserVars


(***************************************************************************)
(* Dialogue Translation Engine: the retry loop of translate_dialogue.      *)
(***************************************************************************)
\* if attempts > 10
CeilingExceededLate(a) == a > MaxAttempts + 1
CeilingExceeded(a) == a > MaxAttempts

\* cost += response.usage.cost
AddCostAssign(total, c) == c
AddCost(total, c) == total + c

\* how a call ended: "failure" (it raised, or its text did not parse),
\* "rejected" (parsed, not returned) or "ok" (returned); for a parsed value,
\* whether its shape conforms, the schema [len(s) for s in it] when defined,
\* and whether it is an array of arrays
ReplyRecord(kind, parsed) ==
    [kind |-> kind,
     observed |-> IF parsed # NoValue /\ HasLen(parsed) /\ AllSized(parsed)
                  THEN ObservedSchema(parsed) ELSE <<>>,
     conforming |-> parsed # NoValue /\ SpecConforming(parsed, dialogue),
     sized |-> parsed # NoValue /\ HasLen(parsed) /\ AllSized(parsed),
     sequences |-> parsed # NoValue /\ IsSeqOfSeqs(parsed)]

\* a loop head that does not count the attempt
AttemptNotCounted ==
    /\ pc = "engine"
    /\ epc = "head"
    /\ attempts' = attempts
    /\ IF CeilingExceeded(attempts + 1)
       THEN /\ Exit(1, "exhausted")
            /\ UNCHANGED <<epc, calls>>
       ELSE /\ epc' = "call"
            /\ calls' = Min(calls + 1, MaxAttempts)
            /\ UNCHANGED <<pc, exitStatus, exitCause, outVars>>
    /\ UNCHANGED <<driverVars, prompt, ecost, dialogue, context,
                   billed, costBefore, last, returned, conformSeen, ctxSrc, intr>>
    /\ UNCHANGED setupVars
    /\ UNCHANGED parserVars

\* loop head: attempts += 1; sys.exit(1) past the ceiling, else the call is issued
Attempt ==
    /\ pc = "engine"
    /\ epc = "head"
    /\ attempts' = attempts + 1
    /\ IF CeilingExceeded(attempts + 1)
       THEN /\ Exit(1, "exhausted")
            /\ UNCHANGED <<epc, calls>>
       ELSE /\ epc' = "call"
            /\ calls' = calls + 1
            /\ UNCHANGED <<pc, exitStatus, exitCause, outVars>>
    /\ UNCHANGED <<driverVars, prompt, ecost, dialogue, context,
                   billed, costBefore, last, returned, conformSeen, ctxSrc, intr>>
    /\ UNCHANGED setupVars
    /\ UNCHANGED parserVars

\* a failed call that falls back to the prompt the block started with
GatewayFailsResetsPrompt ==
    /\ pc = "engine"
    /\ epc = "call"
    /\ epc' = "head"
    /\ prompt' = OriginalPrompt(summary, context, dialogue)
    /\ last' = ReplyRecord("failure", NoValue)
    /\ UNCHANGED <<driverVars, outVars, pc, exitStatus, exitCause,
                   attempts, ecost, dialogue, context,
                   calls, billed, costBefore, returned, conformSeen, ctxSrc, intr>>
    /\ UNCHANGED setupVars
    /\ UNCHANGED parserVars

\* the call raises (transport failure): except Exception, "Trying again."
GatewayFails ==
    /\ pc = "engine"
    /\ epc = "call"
    /\ epc' = "head"
    /\ last' = ReplyRecord("failure", NoValue)
    /\ UNCHANGED <<driverVars, outVars, pc, exitStatus, exitCause,
                   attempts, prompt, ecost, dialogue, context,
                   calls, billed, costBefore, returned, conformSeen, ctxSrc, intr>>
    /\ UNCHANGED setupVars
    /\ UNCHANGED parserVars

\* a reply arrives, its cost is added, json_parse raises: except Exception
ReplyUnparsable(R, C) ==
    /\ pc = "engine"
    /\ epc = "call"
    /\ \E r \in R, c \in C :
          /\ ~r.ok
          /\ ecost' = AddCost(ecost, c)
          /\ billed' = billed + c
    /\ epc' = "head"
    /\ last' = ReplyRecord("failure", NoValue)
    /\ UNCHANGED <<driverVars, outVars, pc, exitStatus, exitCause,
                   attempts, prompt, dialogue, context,
                   calls, costBefore, returned, conformSeen, ctxSrc, intr>>
    /\ UNCHANGED setupVars
    /\ UNCHANGED parserVars

\* the reply parses and the shape check itself raises TypeError: except Exception
ReplyTypeError(R, C) ==
    /\ pc = "engine"
    /\ epc = "call"
    /\ \E r \in R, c \in C :
          /\ r.ok
          /\ Validate(r.parsed, dialogue) = "TypeError"
          /\ ecost' = AddCost(ecost, c)
          /\ billed' = billed + c
          /\ last' = ReplyRecord("rejected", r.parsed)
          /\ conformSeen' = (conformSeen \/ SpecConforming(r.parsed, dialogue))
    /\ epc' = "head"
    /\ UNCHANGED <<driverVars, outVars, pc, exitStatus, exitCause,
                   attempts, prompt, dialogue, context,
                   calls, costBefore, returned, ctxSrc, intr>>
    /\ UNCHANGED setupVars
    /\ UNCHANGED parserVars

\* the reply parses and fails the shape check: "Valid JSON, but not the right
\* format"; the corrective prompt is assigned unless building it raises
\* TypeError (len of an element without len()), which except Exception swallows
ReplyMismatch(R, C) ==
    /\ pc = "engine"
    /\ epc = "call"
    /\ \E r \in R, c \in C :
          /\ r.ok
          /\ Validate(r.parsed, dialogue) = "mismatch"
          /\ ecost' = AddCost(ecost, c)
          /\ billed' = billed + c
          /\ prompt' = IF AllSized(r.parsed)
                       THEN CorrectivePrompt(dialogue, r.parsed)
                       ELSE prompt
          /\ last' = ReplyRecord("rejected", r.parsed)
          /\ conformSeen' = (conformSeen \/ SpecConforming(r.parsed, dialogue))
    /\ epc' = "head"
    /\ UNCHANGED <<driverVars, outVars, pc, exitStatus, exitCause,
                   attempts, dialogue, context,
                   calls, costBefore, returned, ctxSrc, intr>>
    /\ UNCHANGED setupVars
    /\ UNCHANGED parserVars

\* the reply passes the shape check: return (parsed, cost); the driver adds the
\* cost and writes the lines back (an index that does not exist raises)
ReplyAccepted(R, C) ==
    /\ pc = "engine"
    /\ epc = "call"
    /\ \E r \in R, c \in C :
          /\ r.ok
          /\ Validate(r.parsed, dialogue) = "ok"
          /\ ecost' = AddCost(ecost, c)
          /\ billed' = billed + c
          /\ last' = ReplyRecord("ok", r.parsed)
          /\ conformSeen' = (conformSeen \/ SpecConforming(r.parsed, dialogue))
          /\ returned' = Append(returned, r.parsed)
          /\ cost' = cost + AddCost(ecost, c)
          /\ doc' = WriteBack(doc, CurFile, CurBlock, r.parsed)
          /\ IF Fits(doc[CurFile].dialogues[CurBlock], r.parsed)
             THEN /\ pc' = "loop"
                  /\ UNCHANGED <<exitStatus, exitCause, outVars>>
             ELSE Exit(1, "crash")
    /\ epc' = "head"
    /\ UNCHANGED <<orig, idx, lastReport, summary,
                   attempts, prompt, dialogue, context,
                   calls, costBefore, ctxSrc, intr>>
    /\ UNCHANGED setupVars
    /\ UNCHANGED parserVars

UncaughtInterruptStatus == {1, 130}

\* KeyboardInterrupt treated like any other exception of the call
InterruptRetried ==
    /\ pc = "engine"
    /\ epc = "call"
    /\ intr' = "call"
    /\ epc' = "head"
    /\ UNCHANGED <<driverVars, outVars, pc, exitStatus, exitCause,
                   attempts, prompt, ecost, dialogue, context, ghostVars>>
    /\ UNCHANGED setupVars
    /\ UNCHANGED parserVars

\* KeyboardInterrupt: inside the try of translate_dialogue it is caught and
\* sys.exit(0) runs; anywhere else nothing catches it
Interrupt ==
    /\ pc \notin {"done", "exited"}
    /\ intr' = (IF pc = "engine" THEN epc ELSE pc)
    /\ IF pc = "engine" /\ epc = "call"
       THEN Exit(0, "interrupt")
       ELSE \E st \in UncaughtInterruptStatus : Exit(st, "interrupt")
    /\ UNCHANGED <<driverVars, engineVars, ghostVars>>
    /\ UNCHANGED setupVars
    /\ UNCHANGED parserVars

(***************************************************************************)
(* Response Parser on its own: json_parse applied to one text.             *)
(***************************************************************************)
ParserForms == {"clean", "padded", "fenced", "tight", "trailing", "double", "open", "garbage"}
ParserValues == EngineValues

TextOf(form, x) ==
    CASE form = "clean" -> CleanText(x)
      [] form = "padded" -> PaddedText(x)
      [] form = "fenced" -> FencedText(x)
      [] form = "tight" -> TightFencedText(x)
      [] form = "trailing" -> TrailingFencedText(x)
      [] form = "double" -> DoubleFencedText(x)
      [] form = "open" -> OpenFencedText(x)
      [] OTHER -> GarbageText

\* return parsed
JsonParseReturns ==
    /\ ppc = "input"
    /\ JsonParseOk(ptext)
    /\ pout' = JsonParse(ptext)
    /\ ppc' = "returned"
    /\ UNCHANGED <<ptext, pvalue, pform, progVars>>

\* json.loads raises JSONDecodeError
JsonParseRaises ==
    /\ ppc = "input"
    /\ ~JsonParseOk(ptext)
    /\ ppc' = "raised"
    /\ UNCHANGED <<ptext, pout, pvalue, pform, progVars>>

(***************************************************************************)
(* Specifications.                                                         *)
(***************************************************************************)
NextWith(R, C) ==
    \/ GetSummary(C)
    \/ GetSummaryFails
    \/ GetTermTranslations(C)
    \/ GetTermTranslationsFails
    \/ BeginBlock
    \/ WriteOutput
    \/ Attempt
    \/ GatewayFails
    \/ ReplyUnparsable(R, C)
    \/ ReplyTypeError(R, C)
    \/ ReplyMismatch(R, C)
    \/ ReplyAccepted(R, C)
    \/ Interrupt

\* single blocks of every shape against every reply, each call costing 1
Init == InitWith(EngineDocs)
Next == NextWith(EngineReplies, UnitCosts)
Spec == Init /\ [][Next]_vars

\* a corpus of several files and blocks against a few replies, each call costing 1
InitDriver == InitWith(DriverDocs)
NextDriver == NextWith(DriverReplies, UnitCosts)
SpecDriver == InitDriver /\ [][NextDriver]_vars

\* two blocks against a few replies with every cost
InitCost == InitWith(CostDocs)
NextCost == NextWith(CostReplies, CallCosts)
SpecCost == InitCost /\ [][NextCost]_vars

\* two blocks against a few replies; the program takes its next step whenever
\* it has one (a gateway call returns or raises, the interpreter runs on), an
\* interrupt may or may not come
InitLive == InitWith(CostDocs)
NextLive == NextWith(CostReplies, UnitCosts)
ProgramStep ==
    \/ GetSummary(UnitCosts)
    \/ GetSummaryFails
    \/ GetTermTranslations(UnitCosts)
    \/ GetTermTranslationsFails
    \/ BeginBlock
    \/ WriteOutput
    \/ Attempt
    \/ GatewayFails
    \/ ReplyUnparsable(CostReplies, UnitCosts)
    \/ ReplyTypeError(CostReplies, UnitCosts)
    \/ ReplyMismatch(CostReplies, UnitCosts)
    \/ ReplyAccepted(CostReplies, UnitCosts)
SpecLive == InitLive /\ [][NextLive]_vars /\ WF_vars(ProgramStep)

\* json_parse on every text form of every value
InitParser ==
    /\ InitProgram({DocNone})
    /\ pvalue \in ParserValues
    /\ pform \in ParserForms
    /\ ptext = TextOf(pform, pvalue)
    /\ ppc = "input"
    /\ pout = NoValue
NextParser == JsonParseReturns \/ JsonParseRaises
SpecParser == InitParser /\ [][NextParser]_vars


(***************************************************************************)
(* Properties.                                                             *)
(***************************************************************************)
\* the k-th block the driver visits, in a Document d
BlockAt(d, k) == d[Positions(orig)[k][1]].dialogues[Positions(orig)[k][2]]
\* R[x][y] of a returned value
Cell(R, x, y) == Items(Items(R)[x])[y]

\* C1: whenever translate_dialogue returns R for a block, R has as many
\* elements as the block has speeches and R[x] has as many elements as speech
\* x has lines, whatever the gateway answered before.
C1_ShapeOfResult ==
    \A k \in DOMAIN returned :
        LET R == returned[k]
            dl == BlockAt(orig, k)
        IN  /\ HasLen(R)
            /\ PyLen(R) = Len(dl)
            /\ \A x \in DOMAIN Items(R) :
                  /\ HasLen(Items(R)[x])
                  /\ PyLen(Items(R)[x]) = Len(dl[x].text)

\* a two-speech block returned after at least one failed or rejected attempt
C1_Witness ==
    /\ pc = "loop"
    /\ Len(returned) = 1
    /\ Len(dialogue) = 2
    /\ attempts > 2
    /\ prompt.kind = "corrective"

\* C2: no block sees more than 10 gateway calls, bare and corrective retries
\* counted alike; when an 11th attempt is due the process exits with a
\* non-zero status and the call is not issued.
C2_AttemptCeiling ==
    /\ calls <= 10
    /\ attempts <= 11
    /\ (attempts = 11 => pc = "exited" /\ exitCause = "exhausted")
    /\ (exitCause = "exhausted" =>
           /\ calls = 10
           /\ attempts = 11
           /\ exitStatus > 0)

\* exhaustion after a run of attempts that holds both kinds of retry
C2_Witness ==
    /\ exitCause = "exhausted"
    /\ prompt.kind = "corrective"
    /\ last.kind = "failure"

\* C3 (as claimed): when the call in flight follows a reply that parsed and
\* was rejected for its shape, its prompt is corrective and carries the
\* block's line counts and the rejected reply's element lengths.
C3_CorrectiveAfterRejection ==
    (pc = "engine" /\ epc = "call" /\ last.kind = "rejected" /\ ~last.conforming) =>
        /\ prompt.kind = "corrective"
        /\ prompt.pattern = Pattern(dialogue)
        /\ (last.sized => prompt.observed = last.observed)

\* C4 (as claimed): the engine returns on the first reply of conforming shape
\* and on no other: no conforming reply is passed over, and the reply it
\* returns on is conforming and is the value returned, after as many calls as
\* attempts.
C4_ReturnsAtFirstConforming ==
    /\ (pc = "engine" => ~conformSeen)
    /\ (last.kind = "ok" =>
           /\ last.conforming
           /\ calls = attempts
           /\ returned # <<>>
           /\ SpecConforming(returned[Len(returned)], dialogue))

\* C5: the context of block i (0-based) is made of the blocks max(0, i-3) ..
\* i-1 of the same file, in order: at most 3, never block i, never another file.
C5_ContextWindow ==
    idx >= 1 =>
        LET f == CurFile
            i == CurBlock - 1
        IN  /\ Len(context) = Len(ctxSrc)
            /\ Len(ctxSrc) <= 3
            /\ Len(ctxSrc) = i - Max(0, i - 3)
            /\ \A k \in DOMAIN ctxSrc :
                  /\ ctxSrc[k][1] = f
                  /\ ctxSrc[k][2] = Max(0, i - 3) + k - 1
                  /\ ctxSrc[k][2] # i
                  /\ (pc = "engine" =>
                         context[k] = FormatDialogue(doc[f].dialogues[ctxSrc[k][2] + 1]))

\* the fifth block of a file: three blocks of context, the first block left out
C5_Witness ==
    /\ pc = "engine"
    /\ CurBlock = 5
    /\ Len(ctxSrc) = 3
    /\ ctxSrc[1] = <<1, 1>>

\* C6: after any prefix of the blocks, the Document has the loaded input's
\* files, blocks, speeches, characters, line counts and one-element lines, and
\* the blocks not yet processed are as loaded.
C6_OnlyTextChanges ==
    /\ Len(doc) = Len(orig)
    /\ \A f \in DOMAIN orig :
          /\ doc[f].name = orig[f].name
          /\ Len(doc[f].dialogues) = Len(orig[f].dialogues)
          /\ \A i \in DOMAIN orig[f].dialogues :
                /\ Len(doc[f].dialogues[i]) = Len(orig[f].dialogues[i])
                /\ \A x \in DOMAIN orig[f].dialogues[i] :
                      /\ doc[f].dialogues[i][x].character = orig[f].dialogues[i][x].character
                      /\ Len(doc[f].dialogues[i][x].text) = Len(orig[f].dialogues[i][x].text)
                      /\ \A y \in DOMAIN orig[f].dialogues[i][x].text :
                            Len(doc[f].dialogues[i][x].text[y]) = 1
    /\ \A k \in 1..DialogueCount(orig) :
          k > Len(returned) => BlockAt(doc, k) = BlockAt(orig, k)

\* some blocks translated, the two-speech block among them, others still to do
C6_Witness ==
    /\ pc = "engine"
    /\ Len(returned) = 3
    /\ BlockAt(doc, 3) # BlockAt(orig, 3)
    /\ BlockAt(doc, 1) # BlockAt(orig, 1)

\* C7: once a block is processed with result R, its line at (x, y) holds
\* R[x][y], and so does the output file once written.
C7_TextIsResult ==
    /\ \A k \in DOMAIN returned :
          \A x \in DOMAIN BlockAt(orig, k) :
             \A y \in DOMAIN BlockAt(orig, k)[x].text :
                BlockAt(doc, k)[x].text[y] = <<Cell(returned[k], x, y)>>
    /\ (written > 0 =>
           /\ out = doc
           /\ \A k \in DOMAIN returned :
                 \A x \in DOMAIN BlockAt(orig, k) :
                    \A y \in DOMAIN BlockAt(orig, k)[x].text :
                       BlockAt(out, k)[x].text[y][1] = Cell(returned[k], x, y))

\* the scenario of the spec: "Hello." by NP answered [["Salve."]]
C7_Witness ==
    /\ pc = "done"
    /\ orig = DocHello
    /\ returned = <<JList(<<JList(<<JStr("Salve.")>>)>>)>>
    /\ out = <<File("a", <<<<Speech("NP", <<"Salve.">>)>>>>)>>

\* C8 (as claimed): once the last block is processed, the cost last reported
\* is the cumulative cost, summed over every call made, and it was reported
\* for the last block.
C8_CostReportedAfterLastBlock ==
    pc = "done" =>
        /\ cost = costBefore + billed
        /\ lastReport.idx = DialogueCount(orig)
        /\ lastReport.cost = cost

\* C9: the output is written at most once and only when every block is done;
\* a process that exited, by exhaustion, interrupt or crash, wrote nothing.
C9_WrittenOnlyAtEnd ==
    /\ written <= 1
    /\ (written = 1 =>
           /\ pc = "done"
           /\ exitCause = "none"
           /\ Len(returned) = DialogueCount(orig)
           /\ out = doc)
    /\ (pc = "exited" => written = 0 /\ out = <<>>)

\* retry exhaustion in a middle block, earlier blocks translated in memory
C9_Witness ==
    /\ pc = "exited"
    /\ exitCause = "exhausted"
    /\ Len(returned) = 2
    /\ doc # orig
    /\ written = 0

\* C10 (as claimed): an interrupt arriving anywhere in the retry loop ends
\* the process with exit status 0.
C10_InterruptExitsZero ==
    intr \in {"head", "call"} => pc = "exited" /\ exitStatus = 0

\* C10 (amended): an interrupt arriving in the retry loop ends the process
\* at once, never as a retry; with status 0 when it arrives inside the try of
\* an attempt, with a non-zero status when it arrives between attempts.
C10_InterruptEndsProcess ==
    /\ (intr # "none" => pc = "exited" /\ exitCause = "interrupt")
    /\ (intr = "call" => exitStatus = 0)
    /\ (intr = "head" => exitStatus > 0)

\* an interrupt during a late attempt that carries a corrective prompt
C10_Witness ==
    /\ intr = "call"
    /\ attempts > 1
    /\ prompt.kind = "corrective"
    /\ exitStatus = 0

\* C11 (as claimed): json_parse returns x for the clean serialisation of x and
\* for x wrapped in a JSON code fence; whenever the text starts with the fence
\* marker exactly the one fence wrapper is removed, so a fenced x gives x
\* however the fence is laid out and a doubly fenced x leaves a fenced text,
\* which is not JSON.
C11_FenceRoundTrip ==
    /\ (ppc \in {"returned", "raised"} /\ pform \in {"clean", "fenced", "tight", "trailing"} =>
           ppc = "returned" /\ pout = pvalue)
    /\ (ppc \in {"returned", "raised"} /\ pform = "double" => ppc = "raised")

\* C12 (as claimed): the call that follows a gateway failure or a parse
\* failure carries the original prompt built for the block.
C12_OriginalAfterFailure ==
    (pc = "engine" /\ epc = "call" /\ last.kind = "failure") =>
        prompt = OriginalPrompt(summary, context, dialogue)

\* C12 (amended): a gateway failure or a parse failure leaves the prompt as
\* it was submitted, and so does the start of the next attempt: the original
\* prompt of the block while no corrective prompt was produced, the latest
\* corrective prompt afterwards.
C12_FailureKeepsPrompt ==
    /\ [][(pc = "engine" /\ epc = "call" /\ epc' = "head" /\ last'.kind = "failure")
             => prompt' = prompt]_vars
    /\ [][(pc = "engine" /\ epc = "head" /\ epc' = "call") => prompt' = prompt]_vars
    /\ [](pc = "engine" /\ prompt.kind = "original"
             => prompt = OriginalPrompt(summary, context, dialogue))

\* a failure after a corrective prompt, the next call in flight
C12_Witness ==
    /\ pc = "engine"
    /\ epc = "call"
    /\ last.kind = "failure"
    /\ prompt.kind = "corrective"
    /\ prompt # OriginalPrompt(summary, context, dialogue)

\* C13 (as claimed): a parsed reply that is not a sequence, or that holds a
\* value that is not a sequence, is never returned, and the call that follows
\* it carries a corrective prompt.
C13_NonSequenceIsMismatch ==
    /\ \A k \in DOMAIN returned : IsSeqOfSeqs(returned[k])
    /\ (last.kind = "ok" => last.sequences)
    /\ (pc = "engine" /\ epc = "call" /\ last.kind = "rejected" /\ ~last.sequences =>
           prompt.kind = "corrective")

\* C14 (as claimed): the context passed for a block is the source text of the
\* preceding blocks as loaded from the input, whatever was returned for them.
C14_ContextIsSourceText ==
    pc = "engine" => context = GatherContext(orig, CurFile, CurBlock)

\* C15 (as claimed): when a parsed reply is rejected for its shape, the prompt
\* of the next attempt is the corrective prompt made of the block and of that
\* reply alone: no glossary, no context, nothing of an earlier reply or prompt.
C15_CorrectiveDoesNotStack ==
    [][(pc = "engine" /\ epc = "call" /\ epc' = "head" /\ last'.kind = "rejected") =>
          \E r \in EngineReplies :
              /\ r.ok
              /\ last' = ReplyRecord("rejected", r.parsed)
              /\ prompt' = CorrectivePrompt(dialogue, r.parsed)]_vars

\* C16: the engine's cost is at every moment the sum of what the gateway
\* charged for the calls of the block that returned a response, whether the
\* response was returned, rejected or unparsable, and that sum is what the
\* driver receives when the engine returns.
C16_CostIsSumOfCalls ==
    /\ ecost = billed
    /\ billed <= calls * MaxCost
    /\ (last.kind = "ok" => cost = costBefore + billed)

\* a block returned on its third call after a mismatch, the calls priced unequally
C16_Witness ==
    /\ pc = "loop"
    /\ last.kind = "ok"
    /\ calls = 3
    /\ billed = 2 * MaxCost + 1
    /\ prompt.kind = "corrective"

\* C17 (as claimed): while a block is being attempted, and when its attempts
\* end in exhaustion, the driver's cost and the block in the Document are as
\* they were when the block started; they differ only once the engine has
\* returned a result of conforming shape.
C17_UpdatedOnlyOnConformingReturn ==
    idx >= 1 =>
        /\ (pc = "engine" \/ exitCause = "exhausted" =>
               /\ cost = costBefore
               /\ BlockAt(doc, idx) = BlockAt(orig, idx))
        /\ (cost # costBefore \/ BlockAt(doc, idx) # BlockAt(orig, idx) =>
               last.kind = "ok" /\ last.conforming)

\* C18: get_summary and get_term_translations are each called at most once,
\* get_term_translations only after get_summary returned, and both have
\* returned before the first block is begun; when either fails the process
\* ends with a non-zero status, no block begun, no gateway call for a
\* dialogue made and nothing written.
C18_SetupCallsOnce ==
    /\ sumCalls <= 1
    /\ termCalls <= 1
    /\ (pc = "summary" => sumCalls = 0)
    /\ (pc = "terms" => sumCalls = 1 /\ termCalls = 0 /\ summary.terms = "english")
    /\ (termCalls = 1 => sumCalls = 1)
    /\ (idx > 0 \/ calls > 0 \/ written > 0 =>
           sumCalls = 1 /\ termCalls = 1 /\ summary.terms = "latin")
    /\ (pc = "exited" /\ exitCause = "crash" /\ summary.terms # "latin" =>
           /\ exitStatus > 0
           /\ idx = 0
           /\ calls = 0
           /\ returned = <<>>
           /\ written = 0)

\* get_term_translations failed after get_summary succeeded
C18_Witness ==
    /\ pc = "exited"
    /\ exitCause = "crash"
    /\ sumCalls = 1
    /\ termCalls = 1
    /\ summary.terms = "english"
    /\ written = 0

\* C19 (as claimed): every line value of a returned result is a string, and
\* every Line of the Document and of the written output is a one-element
\* container holding a string.
C19_LinesAreStrings ==
    /\ \A k \in DOMAIN returned :
          /\ HasLen(returned[k])
          /\ \A x \in DOMAIN Items(returned[k]) :
                /\ HasLen(Items(returned[k])[x])
                /\ \A y \in DOMAIN Items(Items(returned[k])[x]) :
                      Cell(returned[k], x, y).t = "str"
    /\ \A d \in {doc, out} :
          \A f \in DOMAIN d :
             \A i \in DOMAIN d[f].dialogues :
                \A x \in DOMAIN d[f].dialogues[i] :
                   \A y \in DOMAIN d[f].dialogues[i][x].text :
                      /\ Len(d[f].dialogues[i][x].text[y]) = 1
                      /\ d[f].dialogues[i][x].text[y][1].t = "str"

\* C20: every run ends, with the output written once after the last block or
\* with a process exit; every block leaves the retry loop, by a return or an
\* exit, after at most 10 calls; the attempt counter is 0 when a block is
\* begun, grows by one at every loop iteration and never shrinks within a
\* block.
C20_Terminates ==
    /\ <>(pc \in {"done", "exited"})
    /\ ((pc = "engine") ~> (pc \in {"loop", "exited"}))
    /\ [](pc = "done" => written = 1 /\ idx = DialogueCount(orig))
    /\ [](attempts <= MaxAttempts + 1 /\ calls <= MaxAttempts)
    /\ [][idx' # idx => attempts' = 0]_vars
    /\ [][(pc = "engine" /\ epc = "head" /\ intr' = "none") => attempts' = attempts + 1]_vars
    /\ [][idx' = idx => attempts' >= attempts]_vars

\* a finished run whose second block needed several attempts
C20_Witness ==
    /\ pc = "done"
    /\ written = 1
    /\ Len(returned) = 2
    /\ attempts > 2

====
